---- MODULE Spec2Model ----
(***************************************************************************)
(* Model of call_logs_reader.fetch_call_logs: the retrieval of call-log    *)
(* blobs from a container, filtered by a window on the timestamp encoded   *)
(* in each blob's name and sorted by the start timestamp of its content.   *)
(*                                                                         *)
(* Strings are sequences of one-character strings, so that split, join,    *)
(* strptime and fromisoformat are computed rather than assumed.            *)
(***************************************************************************)
EXTENDS Integers, Sequences, FiniteSets, TLC

\* ---------------------------------------------------------------- bounds
\* Largest number of blobs in the container.
MaxBlobs == 3

\* Largest number of blobs in the container when two invocations run
\* concurrently.
MaxConcBlobs == 2

\* Largest number of blobs in the container the dashboard reads.
MaxDashBlobs == 2

\* ------------------------------------------------------- string helpers
DigitChars == <<"0", "1", "2", "3", "4", "5", "6", "7", "8", "9">>

IsDigit(c) == \E k \in 1..Len(DigitChars) : DigitChars[k] = c

DigitVal(c) == (CHOOSE k \in 1..Len(DigitChars) : DigitChars[k] = c) - 1

AllDigits(s) == \A k \in 1..Len(s) : IsDigit(s[k])

RECURSIVE ToInt(_)
\* int() of a string of decimal digits.
ToInt(s) ==
    IF s = <<>> THEN 0
    ELSE ToInt(SubSeq(s, 1, Len(s) - 1)) * 10 + DigitVal(s[Len(s)])

RECURSIVE Split(_, _)
\* str.split(sep) for a one-character separator: k separators give k + 1
\* parts, empty parts included.
Split(s, sep) ==
    IF \A k \in 1..Len(s) : s[k] # sep THEN <<s>>
    ELSE LET p == CHOOSE k \in 1..Len(s) :
                      s[k] = sep /\ \A j \in 1..(k - 1) : s[j] # sep
         IN  <<SubSeq(s, 1, p - 1)>> \o Split(SubSeq(s, p + 1, Len(s)), sep)

RECURSIVE Join(_, _)
\* sep.join(parts)
Join(parts, sep) ==
    IF parts = <<>> THEN <<>>
    ELSE IF Len(parts) = 1 THEN parts[1]
    ELSE parts[1] \o <<sep>> \o Join(Tail(parts), sep)

\* parts[0:n]
Slice(parts, n) == SubSeq(parts, 1, IF Len(parts) < n THEN Len(parts) ELSE n)

Reverse(s) == [k \in 1..Len(s) |-> s[Len(s) + 1 - k]]

\* ------------------------------------------------------------ datetime
\* A datetime is a record of its fields. Its tzinfo is a record: kind "none"
\* (a naive datetime), "pytz" (the pytz zone object itself, as attached by
\* replace) or "fixed" (an explicit UTC offset), with utcoffset() in minutes.
IsLeap(y) == (y % 4 = 0) /\ ((y % 100 # 0) \/ (y % 400 = 0))

DaysInMonth(y, m) ==
    IF m = 2 THEN (IF IsLeap(y) THEN 29 ELSE 28)
    ELSE IF m \in {4, 6, 9, 11} THEN 30 ELSE 31

RECURSIVE DaysBeforeMonth(_, _)
DaysBeforeMonth(y, m) ==
    IF m = 1 THEN 0 ELSE DaysBeforeMonth(y, m - 1) + DaysInMonth(y, m - 1)

\* date.toordinal(): day 1 is 0001-01-01.
ToOrdinal(y, m, d) ==
    365 * (y - 1) + ((y - 1) \div 4) - ((y - 1) \div 100) + ((y - 1) \div 400)
    + DaysBeforeMonth(y, m) + d

\* The datetime constructor accepts exactly these field values.
ValidFields(y, m, d, hh, mm, ss) ==
    /\ y \in 1..9999
    /\ m \in 1..12
    /\ d >= 1 /\ d <= DaysInMonth(y, m)
    /\ hh \in 0..23
    /\ mm \in 0..59
    /\ ss \in 0..59

MkDatetime(y, m, d, hh, mm, ss, us, tz) ==
    [year |-> y, month |-> m, day |-> d, hour |-> hh, minute |-> mm,
     second |-> ss, microsecond |-> us, tzinfo |-> tz]

\* The zone object pytz.timezone('Asia/Kolkata') attached with
\* datetime.replace(tzinfo=...) is not localized: its utcoffset() is the
\* zone's first entry, local mean time +5:53, in minutes.
LMT_OFFSET == 353

\* India Standard Time, UTC+05:30, in minutes.
IST_OFFSET == 330

IST_TIMEZONE == [kind |-> "pytz", minutes |-> LMT_OFFSET]

NoTz == [kind |-> "none", minutes |-> 0]

FixedTz(m) == [kind |-> "fixed", minutes |-> m]

\* tzinfo.utcoffset(dt) in minutes, for an aware datetime.
UtcOffset(tz) == tz.minutes

IsAware(dt) == dt.tzinfo.kind # "none"

\* The value two datetimes of the same awareness are compared by: the UTC
\* instant <<ordinal day, second of day, microsecond>> (the wall clock for
\* naive ones).
CmpKey(dt) ==
    LET off  == IF IsAware(dt) THEN UtcOffset(dt.tzinfo) ELSE 0
        secs == dt.hour * 3600 + dt.minute * 60 + dt.second - off * 60
    IN  <<ToOrdinal(dt.year, dt.month, dt.day) + (secs \div 86400),
          secs % 86400, dt.microsecond>>

KeyLess(a, b) ==
    \/ a[1] < b[1]
    \/ a[1] = b[1] /\ a[2] < b[2]
    \/ a[1] = b[1] /\ a[2] = b[2] /\ a[3] < b[3]

\* datetime.__lt__ and __gt__ on two datetimes of the same awareness.
DtLess(a, b) == KeyLess(CmpKey(a), CmpKey(b))

DtGreater(a, b) == KeyLess(CmpKey(b), CmpKey(a))

\* An Optional value is <<>> (None) or <<v>>.
None == <<>>

Some(v) == <<v>>

\* ------------------------------------------------------------- parsing
\* A strptime directive that takes one or two digits with a value in lo..hi
\* (%m, %d, %H, %M, %S).
FieldMatches(t, lo, hi) ==
    /\ Len(t) \in 1..2
    /\ AllDigits(t)
    /\ ToInt(t) >= lo /\ ToInt(t) <= hi

\* Whether "<date_str> <time_str>" matches the format "%Y-%m-%d %H_%M_%S"
\* completely (%Y is four digits, %S admits 60 and 61).
StrptimeMatches(date_str, time_str) ==
    LET dp == Split(date_str, "-")
        tp == Split(time_str, "_")
    IN  /\ Len(dp) = 3
        /\ Len(tp) = 3
        /\ Len(dp[1]) = 4 /\ AllDigits(dp[1])
        /\ FieldMatches(dp[2], 1, 12)
        /\ FieldMatches(dp[3], 1, 31)
        /\ FieldMatches(tp[1], 0, 23)
        /\ FieldMatches(tp[2], 0, 59)
        /\ FieldMatches(tp[3], 0, 61)

\* Mutant of StrptimeOk: a hand-rolled parse that takes six numbers without
\* checking their ranges.
StrptimeOkUnchecked(date_str, time_str) ==
    LET dp == Split(date_str, "-")
        tp == Split(time_str, "_")
    IN  /\ Len(dp) = 3
        /\ Len(tp) = 3
        /\ \A k \in 1..3 : dp[k] # <<>> /\ AllDigits(dp[k])
        /\ \A k \in 1..3 : tp[k] # <<>> /\ AllDigits(tp[k])

\* datetime.strptime raises ValueError unless the text matches the format
\* and the fields make a datetime.
StrptimeOk(date_str, time_str) ==
    /\ StrptimeMatches(date_str, time_str)
    /\ LET dp == Split(date_str, "-")
           tp == Split(time_str, "_")
       IN  ValidFields(ToInt(dp[1]), ToInt(dp[2]), ToInt(dp[3]),
                       ToInt(tp[1]), ToInt(tp[2]), ToInt(tp[3]))

\* datetime.strptime(f"{date_str} {time_str}", "%Y-%m-%d %H_%M_%S"): naive.
Strptime(date_str, time_str) ==
    LET dp == Split(date_str, "-")
        tp == Split(time_str, "_")
    IN  MkDatetime(ToInt(dp[1]), ToInt(dp[2]), ToInt(dp[3]),
                   ToInt(tp[1]), ToInt(tp[2]), ToInt(tp[3]), 0, NoTz)

\* datetime.replace(tzinfo=tz)
ReplaceTz(dt, tz) == [dt EXCEPT !.tzinfo = tz]

\* path_parts = blob.name.split('/')
PathParts(name) == Split(name, "/")

\* time_str = '_'.join(path_parts[1].split('_')[0:3])
TimeStr(path_parts) == Join(Slice(Split(path_parts[2], "_"), 3), "_")

\* Whether the name decodes: two path segments and a parsable timestamp.
NameDecodes(name) ==
    LET path_parts == PathParts(name)
    IN  /\ Len(path_parts) = 2
        /\ StrptimeOk(path_parts[1], TimeStr(path_parts))

\* blob_datetime, for a name that decodes.
BlobDatetime(name) ==
    LET path_parts == PathParts(name)
    IN  ReplaceTz(Strptime(path_parts[1], TimeStr(path_parts)), IST_TIMEZONE)

\* Two digits at positions p, p + 1 of s.
TwoDigits(s, p) == ToInt(SubSeq(s, p, p + 1))

\* The shapes of datetime.fromisoformat modelled: YYYY-MM-DD, optionally
\* followed by a separator and HH:MM:SS, optionally followed by +HH:MM or
\* -HH:MM.
IsoShape(s) ==
    /\ Len(s) \in {10, 19, 25}
    /\ AllDigits(SubSeq(s, 1, 4)) /\ s[5] = "-"
    /\ AllDigits(SubSeq(s, 6, 7)) /\ s[8] = "-"
    /\ AllDigits(SubSeq(s, 9, 10))
    /\ Len(s) >= 19 =>
          /\ AllDigits(SubSeq(s, 12, 13)) /\ s[14] = ":"
          /\ AllDigits(SubSeq(s, 15, 16)) /\ s[17] = ":"
          /\ AllDigits(SubSeq(s, 18, 19))
    /\ Len(s) = 25 =>
          /\ s[20] \in {"+", "-"}
          /\ AllDigits(SubSeq(s, 21, 22)) /\ s[23] = ":"
          /\ AllDigits(SubSeq(s, 24, 25))
          /\ TwoDigits(s, 21) \in 0..23 /\ TwoDigits(s, 24) \in 0..59

\* fromisoformat raises ValueError on any other text.
FromIsoFormatOk(s) ==
    /\ IsoShape(s)
    /\ ValidFields(ToInt(SubSeq(s, 1, 4)), TwoDigits(s, 6), TwoDigits(s, 9),
                   IF Len(s) >= 19 THEN TwoDigits(s, 12) ELSE 0,
                   IF Len(s) >= 19 THEN TwoDigits(s, 15) ELSE 0,
                   IF Len(s) >= 19 THEN TwoDigits(s, 18) ELSE 0)

FromIsoFormat(s) ==
    MkDatetime(ToInt(SubSeq(s, 1, 4)), TwoDigits(s, 6), TwoDigits(s, 9),
               IF Len(s) >= 19 THEN TwoDigits(s, 12) ELSE 0,
               IF Len(s) >= 19 THEN TwoDigits(s, 15) ELSE 0,
               IF Len(s) >= 19 THEN TwoDigits(s, 18) ELSE 0,
               0,
               IF Len(s) = 25
               THEN FixedTz((IF s[20] = "-" THEN -1 ELSE 1)
                            * (TwoDigits(s, 21) * 60 + TwoDigits(s, 24)))
               ELSE NoTz)

\* ----------------------------------------------------- the remote store
\* The content of a blob: kind "record" is a JSON object whose
\* call_timestamps.start is the text `start`; "nostart" a JSON object without
\* call_timestamps.start; "nondict" JSON that is not an object; "undecodable"
\* bytes json.loads rejects; "unavailable" a blob whose download fails.
Content(kind, start) == [kind |-> kind, start |-> start]

\* 2024-01-01/10_00_00_+1.json  start 2024-01-01T10:00:05+05:30
Blob_A ==
    [name |-> <<"2", "0", "2", "4", "-", "0", "1", "-", "0", "1", "/", "1", "0", "_", "0", "0", "_", "0", "0", "_", "+", "1", ".", "j", "s", "o", "n">>,
     content |-> Content("record", <<"2", "0", "2", "4", "-", "0", "1", "-", "0", "1", "T", "1", "0", ":", "0", "0", ":", "0", "5", "+", "0", "5", ":", "3", "0">>)]

\* 2024-01-02/11_30_00_+2.json  start 2024-01-02T11:30:02+05:30
Blob_B ==
    [name |-> <<"2", "0", "2", "4", "-", "0", "1", "-", "0", "2", "/", "1", "1", "_", "3", "0", "_", "0", "0", "_", "+", "2", ".", "j", "s", "o", "n">>,
     content |-> Content("record", <<"2", "0", "2", "4", "-", "0", "1", "-", "0", "2", "T", "1", "1", ":", "3", "0", ":", "0", "2", "+", "0", "5", ":", "3", "0">>)]

\* 2024-01-01/00_10_00_+3.json  start 2024-01-01T04:30:05+00:00
Blob_C ==
    [name |-> <<"2", "0", "2", "4", "-", "0", "1", "-", "0", "1", "/", "0", "0", "_", "1", "0", "_", "0", "0", "_", "+", "3", ".", "j", "s", "o", "n">>,
     content |-> Content("record", <<"2", "0", "2", "4", "-", "0", "1", "-", "0", "1", "T", "0", "4", ":", "3", "0", ":", "0", "5", "+", "0", "0", ":", "0", "0">>)]

\* invalid_name.json  start 2024-01-01T09:00:00+05:30
Blob_D ==
    [name |-> <<"i", "n", "v", "a", "l", "i", "d", "_", "n", "a", "m", "e", ".", "j", "s", "o", "n">>,
     content |-> Content("record", <<"2", "0", "2", "4", "-", "0", "1", "-", "0", "1", "T", "0", "9", ":", "0", "0", ":", "0", "0", "+", "0", "5", ":", "3", "0">>)]

\* 2024-01-01/25_00_00_+5.json  start 2024-01-01T08:00:00+05:30
Blob_E ==
    [name |-> <<"2", "0", "2", "4", "-", "0", "1", "-", "0", "1", "/", "2", "5", "_", "0", "0", "_", "0", "0", "_", "+", "5", ".", "j", "s", "o", "n">>,
     content |-> Content("record", <<"2", "0", "2", "4", "-", "0", "1", "-", "0", "1", "T", "0", "8", ":", "0", "0", ":", "0", "0", "+", "0", "5", ":", "3", "0">>)]

\* 2024-01-01/x/10_00_00_+6.json  start 2024-01-01T07:00:00+05:30
Blob_F ==
    [name |-> <<"2", "0", "2", "4", "-", "0", "1", "-", "0", "1", "/", "x", "/", "1", "0", "_", "0", "0", "_", "0", "0", "_", "+", "6", ".", "j", "s", "o", "n">>,
     content |-> Content("record", <<"2", "0", "2", "4", "-", "0", "1", "-", "0", "1", "T", "0", "7", ":", "0", "0", ":", "0", "0", "+", "0", "5", ":", "3", "0">>)]

\* 2024-01-01/12_00_00_+7.json  (undecodable)
Blob_G ==
    [name |-> <<"2", "0", "2", "4", "-", "0", "1", "-", "0", "1", "/", "1", "2", "_", "0", "0", "_", "0", "0", "_", "+", "7", ".", "j", "s", "o", "n">>,
     content |-> Content("undecodable", <<>>)]

\* 2024-01-01/13_00_00_+8.json  (nostart)
Blob_H ==
    [name |-> <<"2", "0", "2", "4", "-", "0", "1", "-", "0", "1", "/", "1", "3", "_", "0", "0", "_", "0", "0", "_", "+", "8", ".", "j", "s", "o", "n">>,
     content |-> Content("nostart", <<>>)]

\* 2024-01-02/09_00_00_+9.json  start 2024-01-02T09:00:00
Blob_I ==
    [name |-> <<"2", "0", "2", "4", "-", "0", "1", "-", "0", "2", "/", "0", "9", "_", "0", "0", "_", "0", "0", "_", "+", "9", ".", "j", "s", "o", "n">>,
     content |-> Content("record", <<"2", "0", "2", "4", "-", "0", "1", "-", "0", "2", "T", "0", "9", ":", "0", "0", ":", "0", "0">>)]

\* 2024-01-01/14_00_00_+0.json  (unavailable)
Blob_J ==
    [name |-> <<"2", "0", "2", "4", "-", "0", "1", "-", "0", "1", "/", "1", "4", "_", "0", "0", "_", "0", "0", "_", "+", "0", ".", "j", "s", "o", "n">>,
     content |-> Content("unavailable", <<>>)]

PoolBlobs == {Blob_A, Blob_B, Blob_C, Blob_D, Blob_E, Blob_F, Blob_G, Blob_H, Blob_I, Blob_J}

PoolNames == {b.name : b \in PoolBlobs}

PoolContent(n) == (CHOOSE b \in PoolBlobs : b.name = n).content

\* The containers: up to MaxBlobs blobs, each name at most once.
Stores ==
    {[n \in S |-> PoolContent(n)] :
        S \in {T \in SUBSET PoolNames : Cardinality(T) <= MaxBlobs}}


\* The start bounds a caller passes: none, a date-only selection (naive
\* midnight), the same instant with an explicit +05:30 zone, the next day.
StartPool ==
    {None,
     Some(MkDatetime(2024, 1, 1, 0, 0, 0, 0, NoTz)),
     Some(MkDatetime(2024, 1, 1, 0, 0, 0, 0, FixedTz(IST_OFFSET))),
     Some(MkDatetime(2024, 1, 2, 0, 0, 0, 0, NoTz))}

\* The end bounds a caller passes: none, a date-only selection, a bound with
\* a time of day, a bound with a time of day and an explicit +05:30 zone.
EndPool ==
    {None,
     Some(MkDatetime(2024, 1, 1, 0, 0, 0, 0, NoTz)),
     Some(MkDatetime(2024, 1, 2, 10, 0, 0, 0, NoTz)),
     Some(MkDatetime(2024, 1, 1, 9, 0, 0, 0, FixedTz(IST_OFFSET)))}

\* What the code computes from a blob name, tabulated once for the names of
\* the pool: the number of path segments, whether the name decodes, and
\* blob_datetime.
NameTable ==
    [n \in PoolNames |->
        [segments      |-> Len(PathParts(n)),
         decodes       |-> NameDecodes(n),
         blob_datetime |-> IF NameDecodes(n) THEN Some(BlobDatetime(n)) ELSE None]]

\* What line 99 computes from a start text, tabulated once for the texts of
\* the pool: whether fromisoformat accepts it, and the datetime.
StartTable ==
    [s \in {b.content.start : b \in PoolBlobs} |->
        [ok  |-> FromIsoFormatOk(s),
         key |-> IF FromIsoFormatOk(s) THEN Some(FromIsoFormat(s)) ELSE None]]

Requests == [start : StartPool, end : EndPool]

Invocations == {1, 2}

RECURSIVE Perms(_)
\* The orders in which the store may enumerate the names S.
Perms(S) ==
    IF S = {} THEN {<<>>}
    ELSE UNION {{<<n>> \o p : p \in Perms(S \ {n})} : n \in S}

\* ---------------------------------------------------------------- state
VARIABLES
    store,          \* the container: blob name -> content
    reachable,      \* whether the store answers list_blobs
    request,        \* per invocation: the (start_date, end_date) arguments
    pc,             \* per invocation: position in fetch_call_logs
    start_date,     \* per invocation: the local start_date after line 45
    end_date,       \* per invocation: the local end_date after line 51
    blob_list,      \* per invocation: the enumeration list_blobs yields
    idx,            \* per invocation: number of blobs the loop has taken
    blob_datetime,  \* per invocation: the local blob_datetime (None if unset)
    call_logs,      \* per invocation: the local accumulator
    errors,         \* per invocation: blobs named by logger.error at line 94
    exc,            \* per invocation: the exception in flight in the handler
    returned,       \* per invocation: what the caller received
    session_logs,   \* app.py: st.session_state.logs
    fetched,        \* app.py: st.session_state.fetched
    prev_start_date, \* app.py: st.session_state.prev_start_date
    prev_end_date,  \* app.py: st.session_state.prev_end_date
    from_date,      \* app.py: the "From Date" widget (the script's start_date)
    to_date,        \* app.py: the "To Date" widget (the script's end_date)
    display,        \* app.py: the branch of lines 123-531 the last run rendered
    error_shown,    \* app.py: whether the last run called st.error (line 116)
    last_fetch,     \* history: outcome of fetch_call_logs in the last run
    origin          \* history: arguments and result of the last successful fetch

dashVars == <<session_logs, fetched, prev_start_date, prev_end_date, from_date, to_date,
              display, error_shown, last_fetch, origin>>

vars == <<store, reachable, request, pc, start_date, end_date, blob_list, idx,
          blob_datetime, call_logs, errors, exc, returned, dashVars>>

NotReturned == [status |-> "none", value |-> <<>>]

\* -------------------------------------------------- the steps of the code
\* Lines 44-47: a bound without tzinfo gets the zone object.
EnsureAware(d) ==
    IF d # None /\ ~IsAware(d[1]) THEN Some(ReplaceTz(d[1], IST_TIMEZONE)) ELSE d

\* Mutant of EndOfDay: the end bound is used as given.
EndOfDayKept(d) == d

\* Lines 50-51: a given end bound is moved to the end of its day.
EndOfDay(d) ==
    IF d # None
    THEN Some([d[1] EXCEPT !.hour = 23, !.minute = 59, !.second = 59,
                           !.microsecond = 999999])
    ELSE d

\* Mutant of BeforeStart: the comparison is turned round.
BeforeStartInverted(bd, start) == start # None /\ DtGreater(bd, start[1])

\* Line 77: the start filter.
BeforeStart(bd, start) == start # None /\ DtLess(bd, start[1])

\* Line 79: the end filter.
AfterEnd(bd, end) == end # None /\ DtGreater(bd, end[1])

\* Lines 83-88: download, json.loads and the blob_name assignment. None when
\* one of them raises, else the record appended to call_logs.
LoadBlob(name, content) ==
    IF content.kind \in {"unavailable", "undecodable", "nondict"} THEN None
    ELSE Some([blob_name |-> name,
               has_start |-> content.kind = "record",
               start     |-> content.start])

\* Lines 60-95 for one blob: "continue" (skipped silently), "error" (skipped
\* through the except clause, logged) or "append".
BodyOutcome(name, content, start, end) ==
    IF NameTable[name].segments # 2 THEN "continue"
    ELSE IF ~NameTable[name].decodes THEN "error"
    ELSE IF BeforeStart(NameTable[name].blob_datetime[1], start) THEN "continue"
    ELSE IF AfterEnd(NameTable[name].blob_datetime[1], end) THEN "continue"
    ELSE IF LoadBlob(name, content) = None THEN "error"
    ELSE "append"

\* The sort key of line 99.
KeyRaises(x) == ~x.has_start \/ ~StartTable[x.start].ok

SortKey(x) == StartTable[x.start].key[1]

RECURSIVE InsertSorted(_, _)
\* x put into the ascending list after every element not greater than it.
InsertSorted(sorted, x) ==
    IF sorted = <<>> THEN <<x>>
    ELSE IF DtLess(SortKey(x), SortKey(sorted[1]))
         THEN <<x>> \o sorted
         ELSE <<sorted[1]>> \o InsertSorted(Tail(sorted), x)

RECURSIVE SortAscending(_)
\* A stable ascending sort.
SortAscending(logs) ==
    IF logs = <<>> THEN <<>>
    ELSE InsertSorted(SortAscending(SubSeq(logs, 1, Len(logs) - 1)),
                      logs[Len(logs)])

\* Mutant of SortLogs: reverse=True is dropped, the order is ascending.
SortLogsAscending(logs) == SortAscending(Reverse(logs))

\* Mutant of SortLogs: the sort is left out.
SortLogsSkipped(logs) == logs

\* Mutant of SortLogs: an ascending sort reversed afterwards, which reverses
\* the records with equal keys too.
SortLogsTiesReversed(logs) == Reverse(SortAscending(logs))

\* Lines 98-101: list.sort(key=..., reverse=True) reverses the list, sorts it
\* ascending and stably, and reverses it again.
SortLogs(logs) == Reverse(SortAscending(Reverse(logs)))

\* The exception line 98 raises: a key that cannot be computed (KeyError for
\* a missing field, ValueError for text that is not ISO-8601) or a comparison
\* of a naive with an aware key (TypeError); "none" when the sort succeeds.
SortException(logs) ==
    IF \E k \in 1..Len(logs) : KeyRaises(logs[k])
    THEN LET f == CHOOSE k \in 1..Len(logs) :
                      KeyRaises(logs[k]) /\ \A j \in 1..(k - 1) : ~KeyRaises(logs[j])
         IN  IF logs[f].has_start THEN "ValueError" ELSE "KeyError"
    ELSE IF \E j, k \in 1..Len(logs) :
                IsAware(SortKey(logs[j])) # IsAware(SortKey(logs[k]))
         THEN "TypeError"
         ELSE "none"

\* ---------------------------------------------------------------- actions
Date(y, m, d) == [year |-> y, month |-> m, day |-> d]

\* datetime.now(IST_TIMEZONE).date() when the session opens.
Today == Date(2024, 1, 2)

\* The dates the operator picks in the two date inputs.
DashDates == {Date(2023, 12, 26), Date(2024, 1, 1), Date(2024, 1, 2)}

\* Line 102: the default From date, seven days before today.
DefaultFrom ==
    CHOOSE d \in DashDates :
        ToOrdinal(d.year, d.month, d.day) =
            ToOrdinal(Today.year, Today.month, Today.day) - 7

\* The session after its first run: lines 89-97 fill the session state, the
\* widgets hold their defaults, the button is false.
InitDashboard ==
    /\ session_logs = <<>>
    /\ fetched = FALSE
    /\ prev_start_date = None
    /\ prev_end_date = None
    /\ from_date = DefaultFrom
    /\ to_date = Today
    /\ display = "please_select"
    /\ error_shown = FALSE
    /\ last_fetch = NotReturned
    /\ origin = None

\* No invocation has started.
InitLocals ==
    /\ pc = [i \in Invocations |-> "idle"]
    /\ start_date = [i \in Invocations |-> None]
    /\ end_date = [i \in Invocations |-> None]
    /\ blob_list = [i \in Invocations |-> <<>>]
    /\ idx = [i \in Invocations |-> 0]
    /\ blob_datetime = [i \in Invocations |-> None]
    /\ call_logs = [i \in Invocations |-> <<>>]
    /\ errors = [i \in Invocations |-> <<>>]
    /\ exc = [i \in Invocations |-> "none"]
    /\ returned = [i \in Invocations |-> NotReturned]

\* A caller that makes the same request twice, one call after the other.
Init ==
    /\ store \in Stores
    /\ reachable \in BOOLEAN
    /\ request \in [Invocations -> Requests]
    /\ \A i \in Invocations : request[i] = request[1]
    /\ InitLocals
    /\ InitDashboard

\* The caller is sequential: it makes call i when its earlier calls are back.
CallerReady(i) == \A j \in Invocations : j < i => pc[j] = "returned"

\* Mutant of Accumulator: one module-level list that every invocation uses.
AccumulatorShared(i) == 1

\* Line 56: call_logs is a list local to the invocation; the list that
\* invocation i accumulates into, sorts and returns is its own.
Accumulator(i) == i

\* Lines 42-57 with a store that answers: the bounds are normalised and the
\* enumeration starts, in an order the store chooses.
Call(i) ==
    /\ pc[i] = "idle"
    /\ reachable
    /\ start_date' = [start_date EXCEPT ![i] = EnsureAware(request[i].start)]
    /\ end_date' = [end_date EXCEPT ![i] = EndOfDay(EnsureAware(request[i].end))]
    /\ \E order \in Perms(DOMAIN store) :
           blob_list' = [blob_list EXCEPT ![i] = order]
    /\ call_logs' = [call_logs EXCEPT ![Accumulator(i)] = <<>>]
    /\ pc' = [pc EXCEPT ![i] = "loop"]
    /\ UNCHANGED <<dashVars, store, reachable, request, idx, blob_datetime, errors, exc,
                   returned>>

\* Lines 42-59 with a store that does not answer: the enumeration raises
\* outside the per-blob try, into the handler of line 106.
CallStoreDown(i) ==
    /\ pc[i] = "idle"
    /\ ~reachable
    /\ start_date' = [start_date EXCEPT ![i] = EnsureAware(request[i].start)]
    /\ end_date' = [end_date EXCEPT ![i] = EndOfDay(EnsureAware(request[i].end))]
    /\ exc' = [exc EXCEPT ![i] = "StoreError"]
    /\ pc' = [pc EXCEPT ![i] = "failed"]
    /\ UNCHANGED <<dashVars, store, reachable, request, blob_list, idx, blob_datetime,
                   call_logs, errors, returned>>

\* Lines 59-95: one iteration of the loop.
ProcessBlob(i) ==
    /\ pc[i] = "loop"
    /\ idx[i] < Len(blob_list[i])
    /\ LET name    == blob_list[i][idx[i] + 1]
           outcome == BodyOutcome(name, store[name], start_date[i], end_date[i])
       IN  /\ idx' = [idx EXCEPT ![i] = idx[i] + 1]
           /\ blob_datetime' =
                  IF NameTable[name].decodes
                  THEN [blob_datetime EXCEPT ![i] = NameTable[name].blob_datetime]
                  ELSE blob_datetime
           /\ call_logs' =
                  IF outcome = "append"
                  THEN [call_logs EXCEPT
                           ![Accumulator(i)] =
                               Append(call_logs[Accumulator(i)],
                                      LoadBlob(name, store[name])[1])]
                  ELSE call_logs
           /\ errors' =
                  IF outcome = "error"
                  THEN [errors EXCEPT ![i] = Append(errors[i], name)]
                  ELSE errors
    /\ UNCHANGED <<dashVars, store, reachable, request, pc, start_date, end_date, blob_list,
                   exc, returned>>

\* Lines 97-103: the sort after the loop; an exception of the key function
\* or of a comparison goes to the handler of line 106.
Sort(i) ==
    /\ pc[i] = "loop"
    /\ idx[i] = Len(blob_list[i])
    /\ IF SortException(call_logs[Accumulator(i)]) = "none"
       THEN /\ call_logs' = [call_logs EXCEPT
                                ![Accumulator(i)] = SortLogs(call_logs[Accumulator(i)])]
            /\ pc' = [pc EXCEPT ![i] = "sorted"]
            /\ exc' = exc
       ELSE /\ call_logs' = call_logs
            /\ pc' = [pc EXCEPT ![i] = "failed"]
            /\ exc' = [exc EXCEPT ![i] = SortException(call_logs[Accumulator(i)])]
    /\ UNCHANGED <<dashVars, store, reachable, request, start_date, end_date, blob_list, idx,
                   blob_datetime, errors, returned>>

\* The frame of invocation i is left: its locals are gone.
LeaveFrame(i) ==
    /\ start_date' = [start_date EXCEPT ![i] = None]
    /\ end_date' = [end_date EXCEPT ![i] = None]
    /\ blob_list' = [blob_list EXCEPT ![i] = <<>>]
    /\ idx' = [idx EXCEPT ![i] = 0]
    /\ blob_datetime' = [blob_datetime EXCEPT ![i] = None]
    /\ call_logs' = [call_logs EXCEPT ![Accumulator(i)] = <<>>]
    /\ errors' = [errors EXCEPT ![i] = <<>>]
    /\ exc' = [exc EXCEPT ![i] = "none"]

\* Line 104: return call_logs.
Return(i) ==
    /\ pc[i] = "sorted"
    /\ returned' = [returned EXCEPT
                       ![i] = [status |-> "ok", value |-> call_logs[Accumulator(i)]]]
    /\ pc' = [pc EXCEPT ![i] = "returned"]
    /\ LeaveFrame(i)
    /\ UNCHANGED <<dashVars, store, reachable, request>>

\* Lines 106-108: the exception is logged and raised again to the caller.
Raise(i) ==
    /\ pc[i] = "failed"
    /\ returned' = [returned EXCEPT ![i] = [status |-> exc[i], value |-> <<>>]]
    /\ pc' = [pc EXCEPT ![i] = "returned"]
    /\ LeaveFrame(i)
    /\ UNCHANGED <<dashVars, store, reachable, request>>

\* The sequential caller makes a call, to a store that answers.
SequentialCall(i) == CallerReady(i) /\ Call(i)

\* The sequential caller makes a call, to a store that does not answer.
SequentialCallStoreDown(i) == CallerReady(i) /\ CallStoreDown(i)

Next ==
    \E i \in Invocations :
        \/ SequentialCall(i)
        \/ SequentialCallStoreDown(i)
        \/ ProcessBlob(i)
        \/ Sort(i)
        \/ Return(i)
        \/ Raise(i)

Spec == Init /\ [][Next]_vars

\* ------------------------------------------- two concurrent invocations
\* The blobs of the containers two concurrent invocations read.
ConcPool == {Blob_A, Blob_B, Blob_C, Blob_D, Blob_G, Blob_H}

ConcStores ==
    {[n \in S |-> PoolContent(n)] :
        S \in {T \in SUBSET {b.name : b \in ConcPool} :
                  Cardinality(T) <= MaxConcBlobs}}

\* The windows two users ask for at once: everything, 2024-01-01 alone,
\* 2024-01-02 alone.
ConcRequests ==
    {[start |-> None, end |-> None],
     [start |-> Some(MkDatetime(2024, 1, 1, 0, 0, 0, 0, NoTz)),
      end   |-> Some(MkDatetime(2024, 1, 1, 0, 0, 0, 0, NoTz))],
     [start |-> Some(MkDatetime(2024, 1, 2, 0, 0, 0, 0, NoTz)),
      end   |-> Some(MkDatetime(2024, 1, 2, 10, 0, 0, 0, NoTz))]}

\* Two callers with different windows, each free to call at any time.
ConcInit ==
    /\ store \in ConcStores
    /\ reachable \in BOOLEAN
    /\ request \in [Invocations -> ConcRequests]
    /\ request[1] # request[2]
    /\ InitLocals
    /\ InitDashboard

\* Every interleaving of the steps of the two invocations.
ConcNext ==
    \E i \in Invocations :
        \/ Call(i)
        \/ CallStoreDown(i)
        \/ ProcessBlob(i)
        \/ Sort(i)
        \/ Return(i)
        \/ Raise(i)

SpecConc == ConcInit /\ [][ConcNext]_vars

\* ------------------------------------------ fetch_call_logs as a function
\* Lines 60-90 for one blob: the record the loop body appends for blob n, if
\* it appends one.
Appended(n, start, end) ==
    IF BodyOutcome(n, store[n], start, end) = "append"
    THEN <<LoadBlob(n, store[n])[1]>>
    ELSE <<>>

RECURSIVE AccumulatedAlone(_, _, _)
\* The list an invocation that runs alone has accumulated after taking the
\* blobs of `taken` in that order, with the normalised bounds start and end.
AccumulatedAlone(taken, start, end) ==
    IF taken = <<>> THEN <<>>
    ELSE AccumulatedAlone(SubSeq(taken, 1, Len(taken) - 1), start, end)
             \o Appended(taken[Len(taken)], start, end)

\* Lines 97-108 on the accumulated list: the sorted list is returned, or the
\* exception of the sort is re-raised.
SortAndReturn(acc) ==
    IF SortException(acc) = "none"
    THEN [status |-> "ok", value |-> SortLogs(acc)]
    ELSE [status |-> SortException(acc), value |-> <<>>]

\* What one call returns or raises when the store yields its blobs in
\* `order`: lines 42-108 run from entry to exit without interruption.
FetchCallLogs(order, start, end) ==
    IF ~reachable THEN [status |-> "StoreError", value |-> <<>>]
    ELSE CHOOSE res \in {SortAndReturn(acc) :
                            acc \in {AccumulatedAlone(order, EnsureAware(start),
                                                      EndOfDay(EnsureAware(end)))}} :
             TRUE

\* ------------------------------------------------ the dashboard (app.py)
\* datetime.time.min and datetime.time.max.
TimeMin == [hour |-> 0, minute |-> 0, second |-> 0, microsecond |-> 0]

TimeMax == [hour |-> 23, minute |-> 59, second |-> 59, microsecond |-> 999999]

\* datetime.combine(date, time): a naive datetime.
Combine(d, t) ==
    MkDatetime(d.year, d.month, d.day, t.hour, t.minute, t.second,
               t.microsecond, NoTz)

\* Lines 108-109: the bounds the button handler passes to fetch_call_logs.
StartDatetime(sd) == ReplaceTz(Combine(sd, TimeMin), IST_TIMEZONE)

EndDatetime(ed) == ReplaceTz(Combine(ed, TimeMax), IST_TIMEZONE)

\* The blobs of the containers the dashboard reads.
DashPool == {Blob_A, Blob_B, Blob_C, Blob_H, Blob_I}

DashStores ==
    {[n \in S |-> PoolContent(n)] :
        S \in {T \in SUBSET {b.name : b \in DashPool} :
                  Cardinality(T) <= MaxDashBlobs}}

\* st.session_state as the script sees it.
SessionState ==
    [logs |-> session_logs, fetched |-> fetched,
     prev_start_date |-> prev_start_date, prev_end_date |-> prev_end_date]

\* Lines 111-114: the four assignments after a fetch that returned.
StoreFetched(res, sd, ed) ==
    [logs |-> res.value, fetched |-> TRUE,
     prev_start_date |-> Some(sd), prev_end_date |-> Some(ed)]

\* Line 115: `except Exception` catches every exception fetch_call_logs
\* re-raises at line 108.
ExceptException(e) == e \in {"StoreError", "KeyError", "ValueError", "TypeError"}

\* Mutant of RangeChanged: `and` in place of `or`.
RangeChangedBoth(sd, ed, ss) ==
    Some(sd) # ss.prev_start_date /\ Some(ed) # ss.prev_end_date

\* Line 119: the selected range is not the range of the stored result.
RangeChanged(sd, ed, ss) ==
    Some(sd) # ss.prev_start_date \/ Some(ed) # ss.prev_end_date

\* Lines 118-121.
ClearIfRangeChanged(sd, ed, ss) ==
    IF RangeChanged(sd, ed, ss)
    THEN [ss EXCEPT !.logs = <<>>, !.fetched = FALSE]
    ELSE ss

\* Mutant of Display: the empty result is rendered as the initial prompt.
DisplayIgnoresFetched(ss) ==
    IF ss.logs # <<>> THEN "dashboard" ELSE "please_select"

\* Lines 123 and 528-531: which branch the script renders.
Display(ss) ==
    IF ss.logs # <<>> THEN "dashboard"
    ELSE IF ss.fetched THEN "no_logs"
    ELSE "please_select"

\* One run of the script with the widgets at sd and ed; `clicked` is the
\* value of st.button and `res` what fetch_call_logs does if it is called.
\* An exception the handler does not catch ends the run at line 110 with
\* streamlit's traceback.
ScriptRun(sd, ed, clicked, res) ==
    LET raised  == clicked /\ res.status # "ok"
        crashed == raised /\ ~ExceptException(res.status)
        afterButton == IF clicked /\ res.status = "ok"
                       THEN StoreFetched(res, sd, ed)
                       ELSE SessionState
        final   == IF crashed THEN afterButton
                   ELSE ClearIfRangeChanged(sd, ed, afterButton)
    IN  /\ from_date' = sd
        /\ to_date' = ed
        /\ session_logs' = final.logs
        /\ fetched' = final.fetched
        /\ prev_start_date' = final.prev_start_date
        /\ prev_end_date' = final.prev_end_date
        /\ error_shown' = (raised /\ ~crashed)
        /\ display' = IF crashed THEN "traceback" ELSE Display(final)
        /\ last_fetch' = res
        /\ origin' = IF clicked /\ res.status = "ok"
                     THEN Some([from |-> sd, to |-> ed, value |-> res.value])
                     ELSE origin
        /\ UNCHANGED <<store, reachable, request, pc, start_date, end_date,
                       blob_list, idx, blob_datetime, call_logs, errors, exc,
                       returned>>

\* The operator picks another From date; the script reruns.
ChangeFromDate ==
    \E d \in DashDates \ {from_date} : ScriptRun(d, to_date, FALSE, NotReturned)

\* The operator picks another To date; the script reruns.
ChangeToDate ==
    \E d \in DashDates \ {to_date} : ScriptRun(from_date, d, FALSE, NotReturned)

\* The operator clicks Fetch Logs; the script reruns with the button true.
ClickFetch ==
    \E order \in Perms(DOMAIN store) :
        \E res \in {FetchCallLogs(order, Some(StartDatetime(from_date)),
                                  Some(EndDatetime(to_date)))} :
            ScriptRun(from_date, to_date, TRUE, res)

\* The operator uses a widget of the rendered dashboard (lines 123-527); the
\* script reruns with nothing changed.
Rerun ==
    /\ session_logs # <<>>
    /\ ScriptRun(from_date, to_date, FALSE, NotReturned)

\* The remote store goes away or comes back between two runs.
StoreAvailabilityChanges ==
    /\ reachable' = ~reachable
    /\ UNCHANGED <<store, request, pc, start_date, end_date, blob_list, idx,
                   blob_datetime, call_logs, errors, exc, returned, dashVars>>

DashInit ==
    /\ store \in DashStores
    /\ reachable \in BOOLEAN
    /\ request = [i \in Invocations |-> [start |-> None, end |-> None]]
    /\ InitLocals
    /\ InitDashboard

DashNext ==
    \/ ChangeFromDate
    \/ ChangeToDate
    \/ ClickFetch
    \/ Rerun
    \/ StoreAvailabilityChanges

SpecDash == DashInit /\ [][DashNext]_vars

\* ------------------------------------------------------ claim vocabulary
Range(s) == {s[k] : k \in 1..Len(s)}

BlobNames(logs) == [k \in 1..Len(logs) |-> logs[k].blob_name]

\* Position of a name in an enumeration.
PositionIn(order, n) == CHOOSE k \in 1..Len(order) : order[k] = n

\* The instant of each ISO-8601 start text of the pool.
InstantOfStart ==
    [s \in {b.content.start : b \in PoolBlobs} |->
        IF FromIsoFormatOk(s) THEN CmpKey(FromIsoFormat(s)) ELSE <<0, 0, 0>>]

\* The content start timestamp of a record, as a comparable instant.
StartInstant(x) == InstantOfStart[x.start]

\* The names of the pool that decode, and the instant each decodes to.
DecodableNames == {n \in PoolNames : NameDecodes(n)}

InstantOfName == [n \in DecodableNames |-> CmpKey(BlobDatetime(n))]

\* Content that is a complete record: an object with an ISO-8601 start.
IsCompleteRecord(content) ==
    content.kind = "record" /\ FromIsoFormatOk(content.start)

\* Content that is corrupted: unreadable, not JSON, not an object, or an
\* object without a usable call_timestamps.start.
IsCorrupted(content) == ~IsCompleteRecord(content)

\* Invocation i is between the start of its loop and its return.
InFrame(i) == pc[i] \in {"loop", "sorted", "failed"} /\ reachable

\* Invocation i has taken every blob of the enumeration.
LoopDone(i) == InFrame(i) /\ idx[i] = Len(blob_list[i])

\* The last instant of the day of an end bound.
LastInstantOfDay(dt) ==
    [dt EXCEPT !.hour = 23, !.minute = 59, !.second = 59, !.microsecond = 999999]

\* The identifier-derived timestamp of name n lies in the inclusive window
\* of invocation i.
InsideWindow(i, n) ==
    LET t == InstantOfName[n]
    IN  /\ start_date[i] = None
           \/ ~KeyLess(t, CmpKey(start_date[i][1]))
        /\ end_date[i] = None
           \/ ~KeyLess(CmpKey(LastInstantOfDay(end_date[i][1])), t)

\* The blobs a call of invocation i is to return: decodable name, inside
\* the window, complete record.
Expected(i) ==
    {n \in DOMAIN store :
        n \in DecodableNames /\ InsideWindow(i, n) /\ IsCompleteRecord(store[n])}

\* C1: a failure in fetching or parsing one blob's content skips that blob
\* only: once the loop is over the call has not failed, and it holds exactly
\* the valid records of the window.
C1_CorruptContentOnlySkipped ==
    \A i \in Invocations :
        LoopDone(i) =>
            /\ pc[i] # "failed"
            /\ pc[i] = "sorted" => Range(BlobNames(call_logs[i])) = Expected(i)

\* C2: the call raises only if the store fails at enumeration: with a store
\* that answers list_blobs, no invocation reaches the handler of line 106.
C2_RaisesOnlyOnEnumerationFailure ==
    \A i \in Invocations :
        /\ pc[i] = "failed" => ~reachable
        /\ returned[i].status \notin {"none", "ok"} => ~reachable

\* A name the naming convention rejects: not exactly one "/", or a date or
\* one of the first three "_" tokens after the "/" that is missing, is not a
\* number, or is out of range.
IsMalformed(n) ==
    LET slashes == {k \in 1..Len(n) : n[k] = "/"}
    IN  \/ Cardinality(slashes) # 1
        \/ LET p    == CHOOSE k \in slashes : TRUE
               date == Split(SubSeq(n, 1, p - 1), "-")
               toks == Split(SubSeq(n, p + 1, Len(n)), "_")
               Num(t, lo, hi) == t # <<>> /\ AllDigits(t) /\ ToInt(t) \in lo..hi
           IN  \/ Len(date) # 3
               \/ Len(toks) < 3
               \/ ~Num(date[1], 1, 9999)
               \/ ~Num(date[2], 1, 12)
               \/ ~Num(date[3], 1, 31)
               \/ ~Num(toks[1], 0, 23)
               \/ ~Num(toks[2], 0, 59)
               \/ ~Num(toks[3], 0, 59)

MalformedNames == {n \in PoolNames : IsMalformed(n)}

MalformedName(n) == n \in MalformedNames

\* C3: a blob with a malformed name is never among the records of a call,
\* and does not end the call: a call on a store that answers fails, if it
\* does, only after the loop has taken every blob.
C3_MalformedNameExcluded ==
    \A i \in Invocations :
        /\ \A k \in 1..Len(call_logs[i]) : ~MalformedName(call_logs[i][k].blob_name)
        /\ \A k \in 1..Len(returned[i].value) :
               ~MalformedName(returned[i].value[k].blob_name)
        /\ pc[i] = "failed" /\ reachable => idx[i] = Len(blob_list[i])

\* A call has taken a blob with more than one "/", one with no "/" or with
\* hour 25, and after them a blob that it kept; the loop has ended normally.
C3_Witness ==
    \E i \in Invocations :
        /\ pc[i] = "sorted"
        /\ \E j, k, m \in 1..Len(blob_list[i]) :
              /\ j < m /\ k < m
              /\ Cardinality({q \in 1..Len(blob_list[i][j]) : blob_list[i][j][q] = "/"}) # 1
              /\ Cardinality({q \in 1..Len(blob_list[i][k]) : blob_list[i][k][q] = "/"}) = 1
              /\ MalformedName(blob_list[i][k])
              /\ blob_list[i][m] \in Range(BlobNames(call_logs[i]))

\* C4: a record is among the records of a call only if the timestamp decoded
\* from its name is not before the start bound (when given) and not after
\* the end of the day of the end bound (when given).
C4_OnlyInsideWindow ==
    \A i \in Invocations :
        InFrame(i) =>
            \A k \in 1..Len(call_logs[i]) :
                LET t == InstantOfName[call_logs[i][k].blob_name]
                IN  /\ call_logs[i][k].blob_name \in DecodableNames
                    /\ start_date[i] # None => ~KeyLess(t, CmpKey(start_date[i][1]))
                    /\ end_date[i] # None =>
                          ~KeyLess(CmpKey(LastInstantOfDay(end_date[i][1])), t)

\* A call with both bounds given has kept a record and has dropped a blob
\* with a complete record that is named for a time after the end bound.
C4_Witness ==
    \E i \in Invocations :
        /\ pc[i] = "sorted"
        /\ start_date[i] # None /\ end_date[i] # None
        /\ call_logs[i] # <<>>
        /\ \E n \in DOMAIN store :
              /\ n \in DecodableNames /\ IsCompleteRecord(store[n])
              /\ n \notin Range(BlobNames(call_logs[i]))
              /\ KeyLess(CmpKey(end_date[i][1]), InstantOfName[n])

\* C5: in the sequence a call returns, each record's content start instant
\* is greater than or equal to that of every record after it.
C5_DescendingByContentStart ==
    \A i \in Invocations :
        /\ pc[i] = "sorted" =>
              \A j, k \in 1..Len(call_logs[i]) :
                  j < k => ~KeyLess(StartInstant(call_logs[i][j]),
                                    StartInstant(call_logs[i][k]))
        /\ \A j, k \in 1..Len(returned[i].value) :
               j < k => ~KeyLess(StartInstant(returned[i].value[j]),
                                 StartInstant(returned[i].value[k]))

\* A call has sorted three records, two of them with different content
\* starts that the store enumerated oldest first.
C5_Witness ==
    \E i \in Invocations :
        /\ pc[i] = "sorted"
        /\ Len(call_logs[i]) = 3
        /\ \E a, b \in 1..Len(call_logs[i]) :
              /\ KeyLess(StartInstant(call_logs[i][a]), StartInstant(call_logs[i][b]))
              /\ PositionIn(blob_list[i], call_logs[i][a].blob_name)
                    < PositionIn(blob_list[i], call_logs[i][b].blob_name)

\* C6 as stated: two successive calls with the same window on the unchanged
\* store hand the caller equal results, whatever the two enumeration orders.
C6_SameResultTwice ==
    (returned[1].status # "none" /\ returned[2].status # "none")
        => returned[1] = returned[2]

\* C6 as amended: the two calls both raise or both return; the sequences
\* returned hold the same identifiers and have equal content start instants
\* at every position, so they differ at most in the order of records with
\* equal content start instants.
C6_SameResultUpToTies ==
    (returned[1].status # "none" /\ returned[2].status # "none") =>
        /\ returned[1].status = returned[2].status
        /\ Len(returned[1].value) = Len(returned[2].value)
        /\ Range(BlobNames(returned[1].value)) = Range(BlobNames(returned[2].value))
        /\ \A k \in 1..Len(returned[1].value) :
               StartInstant(returned[1].value[k]) = StartInstant(returned[2].value[k])

\* Both calls have returned three records, two of them with equal content
\* start instants, and the two sequences are not equal.
C6_Witness ==
    /\ returned[1].status = "ok" /\ returned[2].status = "ok"
    /\ Len(returned[1].value) = 3
    /\ returned[1].value # returned[2].value

\* A blob the loop of invocation i has taken and skipped for a decode
\* failure: a name without exactly two segments, a name whose date and time
\* do not parse, or, inside the window, corrupted content.
SkippedForDecodeFailure(i, n) ==
    \/ Len(Split(n, "/")) # 2
    \/ n \notin DecodableNames
    \/ InsideWindow(i, n) /\ IsCorrupted(store[n])

\* C7: every blob skipped for a decode failure is named in an error line of
\* the call, once.
C7_EverySkipLogged ==
    \A i \in Invocations :
        InFrame(i) =>
            \A k \in 1..idx[i] :
                SkippedForDecodeFailure(i, blob_list[i][k]) =>
                    Cardinality({e \in 1..Len(errors[i]) :
                                    errors[i][e] = blob_list[i][k]}) = 1

\* C8: the timestamp decoded from a name is the instant of the name's year,
\* month, day, hour, minute and second in India Standard Time, UTC+05:30.
C8_DecodedInReferenceZone ==
    \A i \in Invocations :
        blob_datetime[i] # None =>
            CmpKey(blob_datetime[i][1])
                = CmpKey(ReplaceTz(blob_datetime[i][1], FixedTz(IST_OFFSET)))

\* The two blobs of the scenario of C9.
ScenarioStore == {Blob_A.name, Blob_B.name}

C10_TiesKeepEnumerationOrder ==
    \A i \in Invocations :
        pc[i] = "sorted" =>
            \A j, k \in 1..Len(call_logs[i]) :
                (j < k /\ StartInstant(call_logs[i][j]) = StartInstant(call_logs[i][k]))
                    => PositionIn(blob_list[i], call_logs[i][j].blob_name)
                           < PositionIn(blob_list[i], call_logs[i][k].blob_name)

\* A call has sorted three records: two with equal content start instants,
\* and a later one that the store enumerated between them.
C10_Witness ==
    \E i \in Invocations :
        /\ pc[i] = "sorted"
        /\ Len(call_logs[i]) = 3
        /\ StartInstant(call_logs[i][2]) = StartInstant(call_logs[i][3])
        /\ call_logs[i][2].blob_name # call_logs[i][3].blob_name
        /\ PositionIn(blob_list[i], call_logs[i][1].blob_name) = 2

\* The calendar date each decodable name of the pool is named for.
DateOfName ==
    [n \in DecodableNames |->
        LET bd == BlobDatetime(n) IN <<bd.year, bd.month, bd.day>>]

\* The hour each decodable name of the pool is named for.
HourOfName == [n \in DecodableNames |-> BlobDatetime(n).hour]

\* Content that lines 83-88 load without an exception: a JSON object.
IsJsonObject(content) == content.kind \in {"record", "nostart"}

\* C11: when an end bound is given, whatever its time of day, the bound the
\* filter uses is 23:59:59.999999 of the bound's calendar day, and a blob
\* named for any time on that day is not dropped because of the end bound:
\* once the loop has taken it, it is among the records unless it is before
\* the start bound or its content does not load.
C11_EndBoundIsEndOfDay ==
    \A i \in Invocations :
        (InFrame(i) /\ request[i].end # None) =>
            /\ end_date[i] # None
            /\ LET e == end_date[i][1]
                   r == request[i].end[1]
               IN  /\ <<e.year, e.month, e.day>> = <<r.year, r.month, r.day>>
                   /\ <<e.hour, e.minute, e.second, e.microsecond>>
                         = <<23, 59, 59, 999999>>
                   /\ \A k \in 1..idx[i] :
                          LET n == blob_list[i][k]
                          IN  (/\ n \in DecodableNames
                               /\ DateOfName[n] = <<r.year, r.month, r.day>>
                               /\ start_date[i] # None =>
                                     ~KeyLess(InstantOfName[n], CmpKey(start_date[i][1]))
                               /\ IsJsonObject(store[n]))
                              => n \in Range(BlobNames(call_logs[i]))

\* A call whose end bound has a time of day has kept a blob named for a
\* later hour of the same day.
C11_Witness ==
    \E i \in Invocations :
        /\ pc[i] = "sorted"
        /\ request[i].end # None
        /\ request[i].end[1].hour > 0
        /\ \E n \in Range(BlobNames(call_logs[i])) :
              /\ DateOfName[n] = <<request[i].end[1].year, request[i].end[1].month,
                                   request[i].end[1].day>>
              /\ HourOfName[n] > request[i].end[1].hour

\* What invocation i has accumulated so far if nothing interferes with it.
AloneSoFar(i) ==
    AccumulatedAlone(SubSeq(blob_list[i], 1, idx[i]),
                     EnsureAware(request[i].start),
                     EndOfDay(EnsureAware(request[i].end)))

\* C12: under every interleaving of two invocations with different windows
\* on the same store, each invocation holds, sorts and returns exactly what
\* it would alone: in its loop, its list is what it has itself appended; at
\* its return, its list is that list sorted; if it fails, it fails with the
\* exception it would raise alone.
C12_InvocationsDoNotInterfere ==
    \A i \in Invocations :
        /\ (pc[i] = "loop" /\ reachable) => call_logs[i] = AloneSoFar(i)
        /\ pc[i] = "sorted" =>
              /\ SortException(AloneSoFar(i)) = "none"
              /\ call_logs[i] = SortLogs(AloneSoFar(i))
        /\ (pc[i] = "failed" /\ reachable) =>
              /\ call_logs[i] = AloneSoFar(i)
              /\ exc[i] = SortException(AloneSoFar(i))
        /\ returned[i].status = "ok" =>
              Range(BlobNames(returned[i].value)) =
                  {n \in DOMAIN store :
                      BodyOutcome(n, store[n], EnsureAware(request[i].start),
                                  EndOfDay(EnsureAware(request[i].end))) = "append"}

\* Invocation 1 is in the middle of its loop with one record kept, while
\* invocation 2, started after it with another window, has sorted a
\* different record.
C12_Witness ==
    /\ pc[1] = "loop" /\ idx[1] = 1 /\ idx[1] < Len(blob_list[1])
    /\ pc[2] = "sorted"
    /\ request[1] # request[2]
    /\ Len(call_logs[1]) = 1 /\ Len(call_logs[2]) = 1
    /\ call_logs[1] # call_logs[2]

\* The range the two date inputs hold.
SelectedRange == <<from_date, to_date>>

\* The last successful fetch, if any, was made for the selected range.
OriginIsSelectedRange ==
    origin # None /\ <<origin[1].from, origin[1].to>> = SelectedRange

\* C13: after every run of the dashboard script, (a) if the run fetched and
\* the fetch returned zero records, the session has fetched true and logs
\* empty and the run renders "No logs found in the selected date range";
\* (b) if the last successful fetch was not made for the selected range (in
\* particular if none has succeeded for it), the run renders the "Please
\* select a date range" prompt, never the no-logs message; (c) if the run
\* fetched and the fetch raised, the run shows the error message and still
\* renders one of the three branches instead of a traceback.
C13_EmptyResultAndFailureAreShown ==
    /\ (last_fetch.status = "ok" /\ last_fetch.value = <<>>) =>
           (fetched /\ session_logs = <<>> /\ display = "no_logs")
    /\ ~OriginIsSelectedRange => display = "please_select"
    /\ last_fetch.status \notin {"none", "ok"} =>
           (error_shown /\ display \in {"dashboard", "no_logs", "please_select"})

\* After the operator changed the From date, a fetch on a store that holds
\* blobs returned zero records for the selected range and the run rendered
\* the no-logs message.
C13_Witness ==
    /\ DOMAIN store # {}
    /\ last_fetch.status = "ok"
    /\ last_fetch.value = <<>>
    /\ display = "no_logs"
    /\ from_date # DefaultFrom

\* What fetch_call_logs can return or raise for the range sd..ed while the
\* store answers, over the orders in which the store may yield its blobs.
ResultsForRange(sd, ed) ==
    {SortAndReturn(
         AccumulatedAlone(order, EnsureAware(Some(StartDatetime(sd))),
                          EndOfDay(EnsureAware(Some(EndDatetime(ed)))))) :
        order \in Perms(DOMAIN store)}

\* C14: after every run of the dashboard script, (a) if the session's logs
\* are non-empty or fetched is true, the last successful fetch_call_logs call
\* was made for exactly the selected From and To dates and the session's logs
\* are its result, which is a result the store gives for that range; (b) if
\* the selected range differs from the range of the stored result in either
\* date (after a date change, with or without a failed fetch for the new
\* range), logs are empty and fetched is false.
C14_DisplayedLogsBelongToSelectedRange ==
    /\ (session_logs # <<>> \/ fetched) =>
           /\ origin = Some([from |-> from_date, to |-> to_date,
                             value |-> session_logs])
           /\ [status |-> "ok", value |-> session_logs]
                  \in ResultsForRange(from_date, to_date)
    /\ (Some(from_date) # prev_start_date \/ Some(to_date) # prev_end_date) =>
           (session_logs = <<>> /\ ~fetched)

\* A fetch returned records for a range, the operator then changed the To
\* date alone and fetched again, that fetch raised, and the session holds no
\* logs.
C14_Witness ==
    /\ origin # None
    /\ origin[1].value # <<>>
    /\ origin[1].from = from_date
    /\ origin[1].to # to_date
    /\ last_fetch.status \notin {"none", "ok"}
    /\ session_logs = <<>>
    /\ ~fetched

====
